---- MODULE Spec2Model ----
(***************************************************************************)
(* Model of generate_covers.py: the batch driver main() with its file      *)
(* system effects, the template filler process_template() and the          *)
(* paragraph substitution replace_text_in_paragraph().                     *)
(*                                                                         *)
(* Text is a sequence of one-character strings, so that strip(), lower(),  *)
(* endswith(), "in" and replace() are computed character by character.     *)
(***************************************************************************)
EXTENDS Integers, Sequences, FiniteSets, TLC

VARIABLES
    pc,                    \* position in main()
    dataFile,              \* cover_data.xlsx on disk: "absent", "corrupt", "ok"
    columns,               \* df.columns
    nrows,                 \* len(df)
    file_name_col,         \* the column holding the file name
    dirExists,             \* the PDFs directory exists
    dir0,                  \* the PDFs directory existed when main() began
    made,                  \* number of os.makedirs calls
    index,                 \* the row index of the loop
    row,                   \* the row of the loop
    file_name,             \* the row's resolved file name
    templates_to_process,  \* the row's template list
    i,                     \* the part index of the inner loop
    missing,               \* the templates the row found missing on disk
    generated_part_pdfs,   \* the row's list of rendered temporary PDFs
    temps,                 \* the current row's temporary files present on disk
    pdfs,                  \* files of the PDFs directory: name -> content
    pdfs0,                 \* the PDFs directory when the current row started
    status,                \* how the current row has gone so far
    how,                   \* how the current row wrote its target
    visited,               \* the row indices the loop has entered, in order
    errors,                \* number of "Error processing row" lines printed
    template,              \* process_template: the template file's paragraphs
    doc,                   \* process_template: the document being filled
    items,                 \* process_template: row.items() still to apply
    applied,               \* process_template: the (key, text) pairs applied
    fpc,                   \* position in process_template
    paragraph,             \* replace_text_in_paragraph: the paragraph (runs)
    key,                   \* replace_text_in_paragraph: the token
    value,                 \* replace_text_in_paragraph: the replacement
    history                \* the paragraph as it was before each call made so far

mainVars == <<pc, dataFile, dir0, columns, nrows, file_name_col, dirExists,
              made, index, row, file_name, templates_to_process, i, missing,
              generated_part_pdfs, temps, pdfs, pdfs0, status, how, visited,
              errors>>
fillVars == <<template, doc, items, applied, fpc>>
paraVars == <<paragraph, key, value, history>>
vars == <<mainVars, fillVars, paraVars>>

(***************************************************************************)
(* Bounds of the model.                                                    *)
(***************************************************************************)
MaxRows == 2
MaxRuns == 3
MaxRunLen == 2

(***************************************************************************)
(* Configuration (lines 9-12).                                             *)
(***************************************************************************)
COVER_DATA_FILE == "cover_data.xlsx"
TEMPLATE_MAIN == "Annex cover main.docx"
TEMPLATE_SUB == "Annex cover sub main.docx"
TEMPLATE_DESC == "Annex cover description.docx"
Templates == {TEMPLATE_MAIN, TEMPLATE_SUB, TEMPLATE_DESC}

(***************************************************************************)
(* Python string operations.                                               *)
(***************************************************************************)
IsSpace(c) == c \in {" ", "\t", "\n"}

RECURSIVE LStrip(_)
LStrip(s) == IF s # <<>> /\ IsSpace(Head(s)) THEN LStrip(Tail(s)) ELSE s

RECURSIVE RStrip(_)
RStrip(s) ==
    IF s # <<>> /\ IsSpace(s[Len(s)]) THEN RStrip(SubSeq(s, 1, Len(s) - 1)) ELSE s

\* str.strip()
Strip(s) == RStrip(LStrip(s))

LowerChar(c) ==
    CASE c = "A" -> "a" [] c = "B" -> "b" [] c = "D" -> "d" [] c = "E" -> "e"
      [] c = "F" -> "f" [] c = "I" -> "i" [] c = "L" -> "l" [] c = "M" -> "m"
      [] c = "N" -> "n" [] c = "P" -> "p" [] OTHER -> c

\* str.lower()
Lower(s) == [k \in 1..Len(s) |-> LowerChar(s[k])]

\* str.endswith(suffix)
EndsWith(s, suffix) ==
    /\ Len(suffix) <= Len(s)
    /\ SubSeq(s, Len(s) - Len(suffix) + 1, Len(s)) = suffix

\* str.startswith(prefix)
StartsWith(s, prefix) ==
    /\ Len(prefix) <= Len(s)
    /\ SubSeq(s, 1, Len(prefix)) = prefix

\* sub in s
Contains(s, sub) ==
    \E k \in 0..(Len(s) - Len(sub)) : SubSeq(s, k + 1, k + Len(sub)) = sub

\* str.replace(old, new): every non-overlapping occurrence, left to right
RECURSIVE StrReplace(_, _, _)
StrReplace(s, old, new) ==
    IF s = <<>> THEN <<>>
    ELSE IF StartsWith(s, old)
         THEN new \o StrReplace(SubSeq(s, Len(old) + 1, Len(s)), old, new)
         ELSE <<Head(s)>> \o StrReplace(Tail(s), old, new)

DOT_PDF == <<".", "p", "d", "f">>
FILE_NAME == <<"<", "F", "I", "L", "E", "-", "N", "A", "M", "E", ">">>
SUB_COMPONENT == <<"<", "S", "U", "B", "-", "C", "O", "M", "P", "O", "N", "E", "N", "T", ">">>

(***************************************************************************)
(* Cell values of the sheet: a missing cell, a text, an int, a float (in   *)
(* tenths) or a float infinity.                                            *)
(***************************************************************************)
NaN == [kind |-> "nan", s |-> <<>>, n |-> 0]
Text(s) == [kind |-> "str", s |-> s, n |-> 0]
IntCell(n) == [kind |-> "int", s |-> <<>>, n |-> n]
FloatCell(tenths) == [kind |-> "float", s |-> <<>>, n |-> tenths]
Inf == [kind |-> "inf", s |-> <<>>, n |-> 0]

\* pd.isna(value)
IsNa(v) == v.kind = "nan"

Digit(d) == <<"0", "1", "2", "3", "4", "5", "6", "7", "8", "9">>[d + 1]

\* str(n) of a natural number
RECURSIVE NatStr(_)
NatStr(n) == IF n < 10 THEN <<Digit(n)>> ELSE NatStr(n \div 10) \o <<Digit(n % 10)>>

Abs(n) == IF n < 0 THEN -n ELSE n

\* str(n) of an int
IntStr(n) == IF n < 0 THEN <<"-">> \o NatStr(-n) ELSE NatStr(n)

\* int(value) of a finite float: truncation toward zero
FloatToInt(tenths) == IF tenths < 0 THEN -((-tenths) \div 10) ELSE tenths \div 10

\* str(value) of a float
FloatStr(tenths) ==
    (IF tenths < 0 THEN <<"-">> ELSE <<>>)
       \o NatStr(Abs(tenths) \div 10) \o <<".">> \o <<Digit(Abs(tenths) % 10)>>

\* str(value)
PyStr(v) ==
    CASE v.kind = "str" -> v.s
      [] v.kind = "int" -> IntStr(v.n)
      [] v.kind = "float" -> FloatStr(v.n)
      [] v.kind = "inf" -> <<"i", "n", "f">>
      [] OTHER -> <<"n", "a", "n">>

(***************************************************************************)
(* Files.  A PDF is a sequence of pages; a page records the template and   *)
(* the row it was rendered from.  A temporary file is named by its         *)
(* extension, row index and part index (temp_cover_<index>_<i>.<ext>).     *)
(***************************************************************************)
PageCount(tmpl) == IF tmpl = TEMPLATE_DESC THEN 2 ELSE 1

\* the PDF that process_template + convert make of a template for a row
Rendered(tmpl, idx) ==
    [complete |-> TRUE,
     pages |-> [p \in 1..PageCount(tmpl) |-> [tmpl |-> tmpl, index |-> idx, page |-> p]]]

OldFile == [complete |-> TRUE, pages |-> <<[tmpl |-> "old", index |-> -1, page |-> 1]>>]
PartialFile == [complete |-> FALSE, pages |-> <<>>]

TempName(ext, idx, part) == [ext |-> ext, index |-> idx, i |-> part]

WriteFile(dir, name, content) ==
    [n \in (DOMAIN dir) \cup {name} |-> IF n = name THEN content ELSE dir[n]]

RemoveFile(dir, name) == [n \in (DOMAIN dir) \ {name} |-> dir[n]]

NoFiles == [n \in {} |-> OldFile]

(***************************************************************************)
(* The sheets the model reads: header rows and cell values.                *)
(***************************************************************************)
Headers ==
    { <<FILE_NAME, SUB_COMPONENT>>,
      <<<<" ">> \o FILE_NAME \o <<" ">>, SUB_COMPONENT>>,
      <<FILE_NAME>>,
      <<Lower(FILE_NAME), SUB_COMPONENT>>,
      <<SUB_COMPONENT>> }

FileNameCells ==
    { NaN, Text(<<" ", " ">>), Text(<<" ", "a", " ">>),
      Text(<<"a", ".", "P", "D", "F">>) }

SubCells == { NaN, Text(<<" ">>), Text(<<"x">>) }

Rows == [fname : FileNameCells, sub : SubCells]

NoRow == [fname |-> NaN, sub |-> NaN]

InSeq(x, s) == \E k \in 1..Len(s) : s[k] = x

\* row.get(col) for the sub-component column: None when there is no such column
RowGetSub(r) == IF InSeq(SUB_COMPONENT, columns) THEN r.sub ELSE NaN

\* lines 102: the row has no usable file name
EmptyFileName(v) == IsNa(v) \/ Strip(PyStr(v)) = <<>>

\* faulty variant of ResolveFileName: the suffix test without lower()
ResolveFileNameCaseSensitive(v) ==
    LET name == Strip(PyStr(v))
    IN  IF ~EndsWith(name, DOT_PDF) THEN name \o DOT_PDF ELSE name

\* lines 106-108
ResolveFileName(v) ==
    LET name == Strip(PyStr(v))
    IN  IF ~EndsWith(Lower(name), DOT_PDF) THEN name \o DOT_PDF ELSE name

\* faulty variant of SelectTemplates: the emptiness test without strip()
SelectTemplatesNoStrip(v) ==
    IF IsNa(v) \/ PyStr(v) = <<>>
    THEN <<TEMPLATE_MAIN, TEMPLATE_DESC>>
    ELSE <<TEMPLATE_SUB>>

\* lines 114-120
SelectTemplates(v) ==
    IF IsNa(v) \/ Strip(PyStr(v)) = <<>>
    THEN <<TEMPLATE_MAIN, TEMPLATE_DESC>>
    ELSE <<TEMPLATE_SUB>>

(***************************************************************************)
(* main(), lines 64-188.                                                   *)
(***************************************************************************)
MainInit ==
    /\ pc = "start"
    /\ dataFile \in {"absent", "corrupt", "ok"}
    /\ columns = <<>>
    /\ nrows = 0
    /\ file_name_col = <<>>
    /\ dirExists \in BOOLEAN
    /\ dir0 = dirExists
    /\ made = 0
    /\ pdfs \in IF dirExists
                THEN {NoFiles, WriteFile(NoFiles, <<"a", ".", "p", "d", "f">>, OldFile)}
                ELSE {NoFiles}
    /\ pdfs0 = pdfs
    /\ index = 0
    /\ row = NoRow
    /\ file_name = <<>>
    /\ templates_to_process = <<>>
    /\ i = 0
    /\ missing = {}
    /\ generated_part_pdfs = <<>>
    /\ temps = {}
    /\ status = "none"
    /\ how = "none"
    /\ visited = <<>>
    /\ errors = 0

FillIdle ==
    /\ template = <<>> /\ doc = <<>> /\ items = <<>> /\ applied = <<>> /\ fpc = "idle"

ParaIdle == paragraph = <<>> /\ key = <<>> /\ value = <<>> /\ history = <<>>

rowVars == <<row, file_name, templates_to_process, i, missing, generated_part_pdfs,
            status, how>>
\* what main() never changes: the data file, and the state of the other functions
fixedVars == <<dataFile, dir0, fillVars, paraVars>>
sheetVars == <<columns, nrows, file_name_col>>

\* lines 65-67
CheckDataFile ==
    /\ pc = "start"
    /\ pc' = IF dataFile = "absent" THEN "returned" ELSE "read"
    /\ UNCHANGED <<fixedVars, sheetVars, dirExists, made, index, rowVars, temps,
                   pdfs, pdfs0, visited, errors>>

\* lines 71-73: pd.read_excel parses the sheet
ReadExcelOk ==
    /\ pc = "read"
    /\ dataFile = "ok"
    /\ \E h \in Headers, n \in 0..MaxRows :
          /\ columns' = h
          /\ nrows' = n
    /\ pc' = "columns"
    /\ UNCHANGED <<fixedVars, file_name_col, dirExists, made, index, rowVars, temps,
                   pdfs, pdfs0, visited, errors>>

\* lines 74-76: pd.read_excel raises
ReadExcelRaise ==
    /\ pc = "read"
    /\ dataFile = "corrupt"
    /\ pc' = "returned"
    /\ UNCHANGED <<fixedVars, sheetVars, dirExists, made, index, rowVars, temps,
                   pdfs, pdfs0, visited, errors>>

\* line 84: the first column whose stripped name is <FILE-NAME>, or None
StrippedMatch(cols) ==
    IF \E k \in 1..Len(cols) : Strip(cols[k]) = FILE_NAME
    THEN <<cols[CHOOSE k \in 1..Len(cols) :
                  /\ Strip(cols[k]) = FILE_NAME
                  /\ \A j \in 1..(k - 1) : Strip(cols[j]) # FILE_NAME]>>
    ELSE <<>>

\* faulty variant of FindFileNameColumn: no fallback to the stripped column names
FindFileNameColumnExactOnly ==
    /\ pc = "columns"
    /\ IF InSeq(FILE_NAME, columns)
       THEN file_name_col' = FILE_NAME /\ pc' = "mkdir"
       ELSE file_name_col' = FILE_NAME /\ pc' = "returned"
    /\ UNCHANGED <<fixedVars, columns, nrows, dirExists, made, index, rowVars, temps,
                   pdfs, pdfs0, visited, errors>>

\* lines 81-89
FindFileNameColumn ==
    /\ pc = "columns"
    /\ IF InSeq(FILE_NAME, columns)
       THEN file_name_col' = FILE_NAME /\ pc' = "mkdir"
       ELSE IF StrippedMatch(columns) # <<>>
            THEN file_name_col' = StrippedMatch(columns)[1] /\ pc' = "mkdir"
            ELSE file_name_col' = FILE_NAME /\ pc' = "returned"
    /\ UNCHANGED <<fixedVars, columns, nrows, dirExists, made, index, rowVars, temps,
                   pdfs, pdfs0, visited, errors>>

\* lines 92-95
MakeOutputDir ==
    /\ pc = "mkdir"
    /\ IF ~dirExists
       THEN dirExists' = TRUE /\ made' = made + 1
       ELSE UNCHANGED <<dirExists, made>>
    /\ pc' = "row"
    /\ UNCHANGED <<fixedVars, sheetVars, index, rowVars, temps, pdfs, pdfs0,
                   visited, errors>>

\* faulty variant of Raise: the exception is not caught and leaves the loop
RaiseUncaught == pc' = "crashed"

\* line 177: an exception raised inside the try block reaches the handler
Raise == pc' = "except"

\* the content of a temporary PDF the row has rendered
TempContent(name) == Rendered(templates_to_process[name.i + 1], name.index)

RECURSIVE MergedPages(_)
\* lines 167-169: PdfWriter.append of each part, in list order
MergedPages(parts) ==
    IF parts = <<>> THEN <<>>
    ELSE TempContent(Head(parts)).pages \o MergedPages(Tail(parts))

Range(s) == {s[k] : k \in 1..Len(s)}

\* lines 99-104: the loop takes a row whose file name is missing or blank
RowSkip ==
    /\ pc = "row"
    /\ index < nrows
    /\ \E r \in Rows :
          /\ EmptyFileName(r.fname)
          /\ row' = r
    /\ visited' = Append(visited, index)
    /\ index' = index + 1
    /\ file_name' = <<>>
    /\ templates_to_process' = <<>>
    /\ generated_part_pdfs' = <<>>
    /\ i' = 0
    /\ missing' = {}
    /\ status' = "skipped"
    /\ how' = "none"
    /\ pdfs0' = pdfs
    /\ temps' = {}
    /\ UNCHANGED <<pc, fixedVars, sheetVars, dirExists, made, pdfs, errors>>

\* lines 99-125: the loop takes a row, resolves its target and its templates.
\* The row is drawn when iterrows yields it.  The names of temporary files
\* embed the row index (lines 133-134), so the files an earlier row left are
\* never touched again: temps follows the files of the current row only.
RowStart ==
    /\ pc = "row"
    /\ index < nrows
    /\ \E r \in Rows :
          /\ ~EmptyFileName(r.fname)
          /\ row' = r
          /\ file_name' = ResolveFileName(r.fname)
          /\ templates_to_process' = SelectTemplates(RowGetSub(r))
    /\ visited' = Append(visited, index)
    /\ generated_part_pdfs' = <<>>
    /\ i' = 0
    /\ missing' = {}
    /\ status' = "running"
    /\ how' = "none"
    /\ pdfs0' = pdfs
    /\ pc' = "part"
    /\ temps' = {}
    /\ UNCHANGED <<fixedVars, sheetVars, dirExists, made, index, pdfs, errors>>

\* faulty variant of PartMissing: a missing template raises instead of being skipped
PartMissingRaises ==
    /\ pc = "part"
    /\ i < Len(templates_to_process)
    /\ missing' = missing \cup {templates_to_process[i + 1]}
    /\ pc' = "except"
    /\ UNCHANGED <<fixedVars, sheetVars, dirExists, made, index, row, file_name,
                   templates_to_process, i, generated_part_pdfs, status, how, temps,
                   pdfs, pdfs0, visited, errors>>

\* lines 127-130: the template of this part is not on disk (os.path.exists
\* is asked anew for every part of every row)
PartMissing ==
    /\ pc = "part"
    /\ i < Len(templates_to_process)
    /\ missing' = missing \cup {templates_to_process[i + 1]}
    /\ i' = i + 1
    /\ UNCHANGED <<pc, fixedVars, sheetVars, dirExists, made, index, row, file_name,
                   templates_to_process, generated_part_pdfs, status, how, temps,
                   pdfs, pdfs0, visited, errors>>

\* lines 132-137: process_template writes the temporary docx
FillOk ==
    /\ pc = "part"
    /\ i < Len(templates_to_process)
    /\ temps' = temps \cup {TempName("docx", index, i)}
    /\ pc' = "convert"
    /\ UNCHANGED <<fixedVars, sheetVars, dirExists, made, index, rowVars, pdfs, pdfs0,
                   visited, errors>>

\* line 137: process_template raises, before or while saving the docx
FillRaise ==
    /\ pc = "part"
    /\ i < Len(templates_to_process)
    /\ \E saved \in BOOLEAN :
          temps' = IF saved THEN temps \cup {TempName("docx", index, i)} ELSE temps
    /\ Raise
    /\ UNCHANGED <<fixedVars, sheetVars, dirExists, made, index, rowVars, pdfs, pdfs0,
                   visited, errors>>

\* lines 149-153: os.remove(temp_docx), its failure swallowed
AfterDocxCleanup(files, removed) ==
    IF removed THEN files \ {TempName("docx", index, i)} ELSE files

\* lines 143-153: convert writes the PDF; it is appended; the docx is removed
ConvertOk ==
    /\ pc = "convert"
    /\ generated_part_pdfs' = Append(generated_part_pdfs, TempName("pdf", index, i))
    /\ \E removed \in BOOLEAN :
          temps' = AfterDocxCleanup(temps \cup {TempName("pdf", index, i)}, removed)
    /\ i' = i + 1
    /\ pc' = "part"
    /\ UNCHANGED <<fixedVars, sheetVars, dirExists, made, index, row, file_name,
                   templates_to_process, missing, status, how, pdfs, pdfs0, visited,
                   errors>>

\* lines 143-153: convert returns without having written a PDF
ConvertNoFile ==
    /\ pc = "convert"
    /\ \E removed \in BOOLEAN : temps' = AfterDocxCleanup(temps, removed)
    /\ i' = i + 1
    /\ pc' = "part"
    /\ UNCHANGED <<fixedVars, sheetVars, dirExists, made, index, row, file_name,
                   templates_to_process, missing, generated_part_pdfs, status, how,
                   pdfs, pdfs0, visited, errors>>

\* line 143: convert raises, with or without an incomplete PDF left behind
ConvertRaise ==
    /\ pc = "convert"
    /\ \E written \in BOOLEAN :
          temps' = IF written THEN temps \cup {TempName("pdf", index, i)} ELSE temps
    /\ Raise
    /\ UNCHANGED <<fixedVars, sheetVars, dirExists, made, index, rowVars, pdfs, pdfs0,
                   visited, errors>>

\* line 127: the part loop is exhausted
PartsDone ==
    /\ pc = "part"
    /\ i = Len(templates_to_process)
    /\ pc' = "assemble"
    /\ UNCHANGED <<fixedVars, sheetVars, dirExists, made, index, rowVars, temps, pdfs,
                   pdfs0, visited, errors>>

\* lines 156, 174-175: no part was generated
AssembleNone ==
    /\ pc = "assemble"
    /\ generated_part_pdfs = <<>>
    /\ status' = "noparts"
    /\ pc' = "finally"
    /\ UNCHANGED <<fixedVars, sheetVars, dirExists, made, index, row, file_name,
                   templates_to_process, i, missing, generated_part_pdfs, how, temps, pdfs,
                   pdfs0, visited, errors>>

\* lines 157-163, 173: the single part is moved to the target
RenameOk ==
    /\ pc = "assemble"
    /\ Len(generated_part_pdfs) = 1
    /\ pdfs' = WriteFile(RemoveFile(pdfs, file_name), file_name,
                         TempContent(generated_part_pdfs[1]))
    /\ temps' = temps \ {generated_part_pdfs[1]}
    /\ how' = "rename"
    /\ status' = "success"
    /\ pc' = "finally"
    /\ UNCHANGED <<fixedVars, sheetVars, dirExists, made, index, row, file_name,
                   templates_to_process, i, missing, generated_part_pdfs, pdfs0, visited,
                   errors>>

\* lines 161-162: os.remove of the existing target raises
RemoveTargetRaise ==
    /\ pc = "assemble"
    /\ Len(generated_part_pdfs) = 1
    /\ file_name \in DOMAIN pdfs
    /\ Raise
    /\ UNCHANGED <<fixedVars, sheetVars, dirExists, made, index, rowVars, temps, pdfs,
                   pdfs0, visited, errors>>

\* lines 161-163: the existing target is removed, then os.rename raises
RenameRaise ==
    /\ pc = "assemble"
    /\ Len(generated_part_pdfs) = 1
    /\ pdfs' = RemoveFile(pdfs, file_name)
    /\ Raise
    /\ UNCHANGED <<fixedVars, sheetVars, dirExists, made, index, rowVars, temps,
                   pdfs0, visited, errors>>

\* lines 164-173: the parts are appended in list order and written to the target
MergeOk ==
    /\ pc = "assemble"
    /\ Len(generated_part_pdfs) > 1
    /\ pdfs' = WriteFile(pdfs, file_name,
                         [complete |-> TRUE, pages |-> MergedPages(generated_part_pdfs)])
    /\ how' = "merge"
    /\ status' = "success"
    /\ pc' = "finally"
    /\ UNCHANGED <<fixedVars, sheetVars, dirExists, made, index, row, file_name,
                   templates_to_process, i, missing, generated_part_pdfs, temps, pdfs0,
                   visited, errors>>

\* lines 168-169: PdfWriter.append raises
MergeAppendRaise ==
    /\ pc = "assemble"
    /\ Len(generated_part_pdfs) > 1
    /\ Raise
    /\ UNCHANGED <<fixedVars, sheetVars, dirExists, made, index, rowVars, temps, pdfs,
                   pdfs0, visited, errors>>

\* line 170: PdfWriter.write raises, before or after it opened the target
MergeWriteRaise ==
    /\ pc = "assemble"
    /\ Len(generated_part_pdfs) > 1
    /\ \E opened \in BOOLEAN :
          pdfs' = IF opened THEN WriteFile(pdfs, file_name, PartialFile) ELSE pdfs
    /\ Raise
    /\ UNCHANGED <<fixedVars, sheetVars, dirExists, made, index, rowVars, temps,
                   pdfs0, visited, errors>>

\* lines 177-178: the handler logs the row's error
Except ==
    /\ pc = "except"
    /\ status' = "failed"
    /\ errors' = errors + 1
    /\ pc' = "finally"
    /\ UNCHANGED <<fixedVars, sheetVars, dirExists, made, index, row, file_name,
                   templates_to_process, i, missing, generated_part_pdfs, how, temps,
                   pdfs, pdfs0, visited>>

\* lines 181-186: the temporary PDFs the cleanup removes
CleanupTargets == Range(generated_part_pdfs) \cap temps

\* lines 179-186: cleanup of the listed temporary PDFs (a failing os.remove is
\* swallowed and leaves its file), then the loop goes to the next row
Finally ==
    /\ pc = "finally"
    /\ \E kept \in SUBSET CleanupTargets : temps' = temps \ (CleanupTargets \ kept)
    /\ index' = index + 1
    /\ pc' = "row"
    /\ UNCHANGED <<fixedVars, sheetVars, dirExists, made, rowVars, pdfs, pdfs0, visited,
                   errors>>

\* line 188
Done ==
    /\ pc = "row"
    /\ index = nrows
    /\ pc' = "done"
    /\ UNCHANGED <<fixedVars, sheetVars, dirExists, made, index, rowVars, temps, pdfs,
                   pdfs0, visited, errors>>

Init == MainInit /\ FillIdle /\ ParaIdle

Next ==
    \/ CheckDataFile \/ ReadExcelOk \/ ReadExcelRaise \/ FindFileNameColumn
    \/ MakeOutputDir \/ RowSkip \/ RowStart \/ PartMissing \/ FillOk \/ FillRaise
    \/ ConvertOk \/ ConvertNoFile \/ ConvertRaise \/ PartsDone \/ AssembleNone
    \/ RenameOk \/ RemoveTargetRaise \/ RenameRaise \/ MergeOk \/ MergeAppendRaise
    \/ MergeWriteRaise \/ Except \/ Finally \/ Done

Spec == Init /\ [][Next]_vars

(***************************************************************************)
(* Properties of main().                                                   *)
(***************************************************************************)
\* a row has just been finished: the row variables are those of that row
RowEnded == pc \in {"row", "done"} /\ visited # <<>>

\* the index of the row the row variables belong to
RowIndex == visited[Len(visited)]

\* the files of the PDFs directory that hold a complete PDF rendered from row k
OutputsOfRow(k) ==
    { n \in DOMAIN pdfs :
        /\ pdfs[n].complete
        /\ pdfs[n].pages # <<>>
        /\ \A p \in 1..Len(pdfs[n].pages) : pdfs[n].pages[p].index = k }

\* every file other than the row's target is as it was when the row started
OthersUntouched(target) ==
    /\ (DOMAIN pdfs) \ {target} = (DOMAIN pdfs0) \ {target}
    /\ \A n \in (DOMAIN pdfs) \ {target} : pdfs[n] = pdfs0[n]

\* the trimmed name has the .pdf suffix, letter case ignored
HasPdfSuffix(t) ==
    /\ Len(t) >= 4
    /\ Lower(SubSeq(t, Len(t) - 3, Len(t))) = <<".", "p", "d", "f">>

\* the name the claim gives the output of a row with file-name field v
ExpectedName(v) ==
    LET t == Strip(PyStr(v))
    IN  IF HasPdfSuffix(t) THEN t ELSE t \o <<".", "p", "d", "f">>

\* C1: an exception raised by any step of a row is caught at that row's
\* boundary: the run never aborts, the rows are entered once each in sheet
\* order, every state before the end has a next step, and at "Done." every
\* row of the sheet has been visited.
C1_RowFailuresAreContained ==
    /\ pc \in {"start", "read", "columns", "mkdir", "row", "part", "convert",
               "assemble", "except", "finally", "done", "returned"}
    /\ visited = [k \in 1..Len(visited) |-> k - 1]
    /\ Len(visited) <= nrows
    /\ pc \in {"row", "done"} => Len(visited) = index
    /\ pc \in {"part", "convert", "assemble", "except", "finally"} =>
          Len(visited) = index + 1
    /\ pc = "done" => Len(visited) = nrows
    /\ pc \notin {"done", "returned"} => ENABLED Next

\* C1 witness: the run is done, an earlier row failed and the last row,
\* processed after it, succeeded.
C1_Witness ==
    /\ pc = "done"
    /\ nrows >= 2
    /\ errors >= 1
    /\ status = "success"
    /\ Len(visited) = nrows

\* C2: when a row is finished, none of its temporary files is left on disk.
C2_NoTemporaryFileLeft == pc \in {"row", "done"} => temps = {}

SubField == RowGetSub(row)

\* the pages of the row's output
OutputPages == pdfs[file_name].pages

\* C4 as claimed: the sub-component field being empty or missing gives the
\* Main part followed by the Description part; the field being non-empty
\* gives the single Sub part, moved without a merge.
C4_Original ==
    (RowEnded /\ status = "success") =>
        IF IsNa(SubField) \/ PyStr(SubField) = <<>>
        THEN Len(generated_part_pdfs) = 2 =>
                OutputPages = Rendered(TEMPLATE_MAIN, RowIndex).pages
                                 \o Rendered(TEMPLATE_DESC, RowIndex).pages
        ELSE /\ pdfs[file_name] = Rendered(TEMPLATE_SUB, RowIndex)
             /\ how = "rename"

\* C4 amended: the field being missing, empty or whitespace-only gives, when
\* both parts rendered, the Main part followed by the Description part (page
\* count = main pages + description pages) and never a Sub page; a field with a non-whitespace
\* character gives exactly the Sub part, moved to the target without a merge,
\* with no Main or Description page.
C4_PartsFollowSubComponent ==
    (RowEnded /\ status = "success") =>
        IF IsNa(SubField) \/ Strip(PyStr(SubField)) = <<>>
        THEN /\ \A p \in 1..Len(OutputPages) :
                   OutputPages[p].tmpl \in {TEMPLATE_MAIN, TEMPLATE_DESC}
             /\ Len(generated_part_pdfs) = 2 =>
                /\ OutputPages = Rendered(TEMPLATE_MAIN, RowIndex).pages
                                    \o Rendered(TEMPLATE_DESC, RowIndex).pages
                /\ Len(OutputPages) = PageCount(TEMPLATE_MAIN) + PageCount(TEMPLATE_DESC)
                /\ pdfs[file_name].complete
                /\ how = "merge"
        ELSE /\ pdfs[file_name] = Rendered(TEMPLATE_SUB, RowIndex)
             /\ how = "rename"
             /\ \A p \in 1..Len(OutputPages) :
                   OutputPages[p].tmpl \notin {TEMPLATE_MAIN, TEMPLATE_DESC}

\* C4 witness: a row with a blank sub-component field rendered both parts
\* and merged them.
C4_Witness ==
    /\ RowEnded
    /\ status = "success"
    /\ IsNa(SubField)
    /\ Len(generated_part_pdfs) = 2
    /\ how = "merge"

\* the templates of the row's rendered parts, in list order
RenderedTemplates ==
    [k \in 1..Len(generated_part_pdfs) |->
        templates_to_process[generated_part_pdfs[k].i + 1]]

RECURSIVE PagesOf(_, _)
\* the pages of the given templates rendered for row k, one after the other
PagesOf(tmpls, k) ==
    IF tmpls = <<>> THEN <<>>
    ELSE Rendered(Head(tmpls), k).pages \o PagesOf(Tail(tmpls), k)

\* the part indices are increasing: the parts are in template-list order
InListOrder(parts) ==
    \A a, b \in 1..Len(parts) : a < b => parts[a].i < parts[b].i

\* C5: a template missing on disk is skipped without an exception; the
\* output of a row that ends in success is made of the parts that rendered,
\* in list order, and has no page of a missing template; a row whose
\* templates are all missing, or whose part loop ends with no part, writes
\* nothing, gets the warning, and the loop goes on.
C5_MissingTemplateDegrades ==
    /\ (pc \in {"part", "convert", "assemble"}) => status = "running"
    /\ (pc \in {"part", "convert", "assemble", "except", "finally"}
          /\ Range(templates_to_process) \subseteq missing)
          => /\ pc # "except"
             /\ status \in {"running", "noparts"}
             /\ generated_part_pdfs = <<>>
             /\ pdfs = pdfs0
    /\ (RowEnded /\ status # "skipped") =>
          /\ InListOrder(generated_part_pdfs)
          /\ Range(RenderedTemplates) \cap missing = {}
          /\ Range(templates_to_process) \subseteq missing => status = "noparts"
          /\ status = "noparts" =>
                /\ generated_part_pdfs = <<>>
                /\ pdfs = pdfs0
                /\ pc = "row" => index = RowIndex + 1
          /\ status = "success" =>
                /\ OutputPages = PagesOf(RenderedTemplates, RowIndex)
                /\ pdfs[file_name].complete

\* C5 witness: the Main template was missing, the Description part alone
\* became the output.
C5_Witness ==
    /\ RowEnded
    /\ status = "success"
    /\ missing = {TEMPLATE_MAIN}
    /\ RenderedTemplates = <<TEMPLATE_DESC>>
    /\ OutputPages = Rendered(TEMPLATE_DESC, RowIndex).pages

\* C6: a row that ends in the failed state leaves, at its target path,
\* either no file or a complete PDF.
C6_NoPartialOutput ==
    (RowEnded /\ status = "failed") =>
        (file_name \notin DOMAIN pdfs \/ pdfs[file_name].complete)

\* a column equals <FILE-NAME> exactly or after trimming
HasFileNameColumn(cols) ==
    \E k \in 1..Len(cols) : cols[k] = FILE_NAME \/ Strip(cols[k]) = FILE_NAME

RECURSIVE ParagraphText(_)
\* paragraph.text: the texts of the runs, joined
ParagraphText(p) == IF p = <<>> THEN <<>> ELSE Head(p) \o ParagraphText(Tail(p))

\* lines 22-25: every run that holds the key has it replaced
ReplaceInRuns(p, k, v) ==
    [r \in 1..Len(p) |-> IF Contains(p[r], k) THEN StrReplace(p[r], k, v) ELSE p[r]]

\* line 32: assigning paragraph.text leaves one run holding the whole text
SetParagraphText(t) == <<t>>

\* faulty variant of ReplaceTextInParagraph: the fallback without the guard of line 20
ReplaceTextInParagraphUnguarded(p, k, v) ==
    IF \E r \in 1..Len(p) : Contains(p[r], k)
    THEN ReplaceInRuns(p, k, v)
    ELSE SetParagraphText(StrReplace(ParagraphText(p), k, v))

\* lines 20-32
ReplaceTextInParagraph(p, k, v) ==
    IF Contains(ParagraphText(p), k)
    THEN LET replaced_in_run == \E r \in 1..Len(p) : Contains(p[r], k)
         IN  IF replaced_in_run
             THEN ReplaceInRuns(p, k, v)
             ELSE SetParagraphText(StrReplace(ParagraphText(p), k, v))
    ELSE p

\* the texts of at most n characters over the letters a and b
RECURSIVE Strings(_)
Strings(n) ==
    IF n = 0 THEN {<<>>}
    ELSE Strings(n - 1) \cup {Append(t, c) : t \in Strings(n - 1), c \in {"a", "b"}}

RunTexts == Strings(MaxRunLen)

\* the paragraphs of at most n runs
RECURSIVE ParagraphsUpTo(_)
ParagraphsUpTo(n) ==
    IF n = 0 THEN {<<>>}
    ELSE ParagraphsUpTo(n - 1)
            \cup {Append(p, r) : p \in ParagraphsUpTo(n - 1), r \in RunTexts}

Paragraphs == ParagraphsUpTo(MaxRuns)

TokenAB == <<"a", "b">>
Tokens == {TokenAB}
Values == {<<>>, <<"x">>, <<"a", "a", "b">>}

ParaInit ==
    /\ paragraph \in Paragraphs
    /\ key \in Tokens
    /\ value \in Values
    /\ history = <<>>

\* one call of replace_text_in_paragraph(paragraph, key, value)
ReplaceCall ==
    /\ Len(history) < 2
    /\ history' = Append(history, paragraph)
    /\ paragraph' = ReplaceTextInParagraph(paragraph, key, value)
    /\ UNCHANGED <<key, value, mainVars, fillVars>>

MainIdle ==
    /\ pc = "idle" /\ dataFile = "absent" /\ dir0 = FALSE /\ columns = <<>>
    /\ nrows = 0 /\ file_name_col = <<>> /\ dirExists = FALSE /\ made = 0
    /\ index = 0 /\ row = NoRow /\ file_name = <<>> /\ templates_to_process = <<>>
    /\ i = 0 /\ missing = {} /\ generated_part_pdfs = <<>> /\ temps = {}
    /\ pdfs = NoFiles /\ pdfs0 = NoFiles /\ status = "none" /\ how = "none"
    /\ visited = <<>> /\ errors = 0

ParaNext == ReplaceCall

InitPara == MainIdle /\ FillIdle /\ ParaInit

SpecPara == InitPara /\ [][ParaNext]_vars

\* C10 as claimed: after one call the paragraph's text no longer holds the
\* token, and a second call leaves the paragraph unchanged.
C10_Original ==
    /\ Len(history) >= 1 => ~Contains(ParagraphText(paragraph), key)
    /\ Len(history) = 2 => paragraph = history[2]

\* C10 amended: once a call has left a paragraph whose text no longer holds
\* the token, the next call finds no match and leaves every run unchanged.
C10_IdempotentOnceReplaced ==
    (Len(history) = 2 /\ ~Contains(ParagraphText(history[2]), key)) =>
        paragraph = history[2]

\* C10 witness: the first call replaced a token split across runs, the text
\* no longer held it, and the second call changed nothing.
C10_Witness ==
    /\ Len(history) = 2
    /\ Contains(ParagraphText(history[1]), key)
    /\ \A r \in 1..Len(history[1]) : ~Contains(history[1][r], key)
    /\ history[2] # history[1]
    /\ ~Contains(ParagraphText(history[2]), key)
    /\ paragraph = history[2]

(***************************************************************************)
(* process_template(), lines 34-62.  A document is the paragraphs of its   *)
(* body and the paragraphs of its table cells, in document order.          *)
(***************************************************************************)
\* lines 42-49: the replacement text of a cell value, or the exception
Stringify(v) ==
    IF IsNa(v) THEN [raised |-> FALSE, text |-> <<>>]
    ELSE IF v.kind = "inf"
         THEN \* int(value) of an infinite float raises OverflowError
              [raised |-> TRUE, text |-> <<>>]
         ELSE IF v.kind = "int"
              THEN [raised |-> FALSE, text |-> IntStr(v.n)]
              ELSE IF v.kind = "float" /\ FloatToInt(v.n) * 10 = v.n
                   THEN [raised |-> FALSE, text |-> IntStr(FloatToInt(v.n))]
                   ELSE [raised |-> FALSE, text |-> PyStr(v)]

\* lines 52-60: the key is replaced in every paragraph of the body and of
\* every table cell
ReplaceInDocument(d, k, v) ==
    [body |-> [j \in 1..Len(d.body) |-> ReplaceTextInParagraph(d.body[j], k, v)],
     cells |-> [j \in 1..Len(d.cells) |-> ReplaceTextInParagraph(d.cells[j], k, v)]]

TokenB == <<"b">>

Cells ==
    { NaN, IntCell(3), FloatCell(30), FloatCell(35), FloatCell(-20), Inf,
      Text(<<"a">>) }

\* the rows given to process_template: one or two columns, in column order
RowItems ==
    { <<[key |-> TokenAB, value |-> c]>> : c \in Cells }
       \cup { <<[key |-> TokenAB, value |-> c], [key |-> TokenB, value |-> d]>> :
                 c \in Cells, d \in Cells }

FixedParagraph == << <<"a", "b">>, <<"b">> >>

\* the template with paragraph p in the body or in a table cell
Document(p, inBody) ==
    IF inBody
    THEN [body |-> <<p>>, cells |-> <<FixedParagraph>>]
    ELSE [body |-> <<FixedParagraph>>, cells |-> <<p>>]

\* line 35: the template is loaded
FillInit ==
    /\ \E p \in Paragraphs, inBody \in BOOLEAN : template = Document(p, inBody)
    /\ doc = template
    /\ items \in RowItems
    /\ applied = <<>>
    /\ fpc = "loop"

\* lines 38-60: one column of the row is stringified and substituted
ProcessItem ==
    /\ fpc = "loop"
    /\ items # <<>>
    /\ ~Stringify(Head(items).value).raised
    /\ LET k == Head(items).key
           v == Stringify(Head(items).value).text
       IN  /\ doc' = ReplaceInDocument(doc, k, v)
           /\ applied' = Append(applied, [key |-> k, value |-> Head(items).value, text |-> v])
    /\ items' = Tail(items)
    /\ UNCHANGED <<template, fpc, mainVars, paraVars>>

\* line 46: stringifying the column's value raises; process_template is left
StringifyRaises ==
    /\ fpc = "loop"
    /\ items # <<>>
    /\ Stringify(Head(items).value).raised
    /\ fpc' = "raised"
    /\ UNCHANGED <<template, doc, items, applied, mainVars, paraVars>>

\* line 62
SaveDocument ==
    /\ fpc = "loop"
    /\ items = <<>>
    /\ fpc' = "saved"
    /\ UNCHANGED <<template, doc, items, applied, mainVars, paraVars>>

FillNext == ProcessItem \/ StringifyRaises \/ SaveDocument

InitFill == MainIdle /\ ParaIdle /\ FillInit

SpecFill == InitFill /\ [][FillNext]_vars

\* the value is a number that is mathematically an integer
IsWholeNumber(v) == v.kind = "int" \/ (v.kind = "float" /\ v.n % 10 = 0)

\* the text the claim gives a cell value
ExpectedText(v) ==
    IF IsNa(v) THEN <<>>
    ELSE IF IsWholeNumber(v)
         THEN IntStr(IF v.kind = "int" THEN v.n ELSE v.n \div 10)
         ELSE PyStr(v)

\* C8: a missing value is substituted as the empty text, a whole number
\* without a decimal point, every other value as its default string form;
\* stringifying a value never raises.
C8_Stringification ==
    /\ fpc # "raised"
    /\ \A k \in 1..Len(applied) : applied[k].text = ExpectedText(applied[k].value)

RECURSIVE ReplaceAll(_, _)
\* the text with every occurrence of each applied token replaced, in column order
ReplaceAll(t, pairs) ==
    IF pairs = <<>> THEN t
    ELSE ReplaceAll(StrReplace(t, Head(pairs).key, Head(pairs).text), Tail(pairs))

\* C9: the text of every paragraph of the saved document is its original
\* text with every occurrence of each column's token replaced by the row's
\* stringified value, columns applied in order, however the text is divided
\* into runs.
C9_EveryOccurrenceReplaced ==
    fpc = "saved" =>
        /\ \A j \in 1..Len(doc.body) :
              ParagraphText(doc.body[j])
                 = ReplaceAll(ParagraphText(template.body[j]), applied)
        /\ \A j \in 1..Len(doc.cells) :
              ParagraphText(doc.cells[j])
                 = ReplaceAll(ParagraphText(template.cells[j]), applied)

====
